---- MODULE Spec2Model ----
(***************************************************************************)
(* Archaide back end: the Hub loop (internal/hub/hub.go), the game          *)
(* goroutines of Pong and Asteroids (Start, Stop, RemovePlayer, AddPlayer), *)
(* the GameFinished callback and the connection tasks that feed the Hub.    *)
(*                                                                         *)
(* Granularity.  The Hub handles one event of its select per action, with   *)
(* everything the case calls.  The only other code that takes gameMutex is  *)
(* GameFinished, run by game goroutines.  gameMutex is a sync.RWMutex and   *)
(* is not reentrant: a goroutine that asks for it while holding it never    *)
(* proceeds, so the code after such a request has no transition, and the    *)
(* mutex stays with that goroutine.  A Hub that receives an event while the *)
(* mutex is held that way is parked at its first lock request ("blocked").  *)
(* A game goroutine takes one step per critical section of playerMux.       *)
(*                                                                         *)
(* A Go runtime panic (send on a closed channel, close of a closed channel, *)
(* nil dereference) ends the process: no action is enabled afterwards.      *)
(*                                                                         *)
(* The physics of the two games is not part of this state machine: a tick   *)
(* of a game with enough players nondeterministically reports game over.    *)
(***************************************************************************)
EXTENDS Integers, Sequences, FiniteSets, TLC

\* ------------------------------------------------------------------ bounds

\* Number of repeated unregister events the Hub receives in a row (SpecDup
\* only).
MaxDup == 1
\* Number of connections (Client objects) that are ever made.
NumClients == 3
\* Number of connections that are ever made under FairSpec and SpecDup.
FairClients == 2
\* Number of connections whose read fails (the others stay open).
MaxDisconnects == 2
\* Capacity used for the Hub's incoming channel (256 in the code).
MaxIncoming == 1
\* Largest score a player holds in a game when the game stops.
MaxScore == 1
\* Number of sendMessage calls made for one client (SendSpec only): enough to
\* fill its Send channel and go on.
MaxSendCalls == 258
\* Number of projectiles shot and number of ticks in one Asteroids game
\* (AsteroidsSpec only).
MaxShots == 2
MaxTicks == 2
\* Number of players added to one Asteroids game and largest score one of
\* them reaches, in hits (WinnerSpec only).
MaxWinPlayers == 3
MaxWinScore == 2
\* Number of GetCharacter calls followed by CharacterSpec.
MaxCharCalls == 120
\* Number of games the calls followed by LockSpec create.
MaxLockGames == 2
\* Number of clients that are offered to one Pong game (PongGameSpec).
MaxPongPlayers == 3

Clients == 1..NumClients
\* A game id is minted per started round; every round moves at least one
\* voter into a game, and a client leaves a game only through unregister or
\* GameFinished.
Games == 1..NumClients

\* ------------------------------------------------------- program constants

availableGames == {"Asteroids", "Pong"}
InvalidGame == "Tetris"
NoVote == ""
NoGame == 0
\* Capacity of client.Send: make(chan []byte, 256) in serveWs.
SendCapacity == 256
\* Pong: the field is GameHeight high, a paddle is PaddleHeight high and moves
\* by PaddleSpeed per input (float64 values in the code, all of them whole).
GameHeight == 600
GameWidth == 800
BallSize == 10
TargetScore == 5
PaddleHeight == 60
PaddleSpeed == 10
\* Asteroids: the field starts with INITIAL_ASTEROID_COUNT large asteroids; a
\* hit asteroid breaks into ASTEROID_SPLIT_COUNT pieces.
INITIAL_ASTEROID_COUNT == 8
ASTEROID_POINTS_LARGE == 20
ASTEROID_POINTS_MIDDLE == 50
ASTEROID_POINTS_SMALL == 100
ASTEROID_SPLIT_COUNT == 2

PongMinPlayers == 2
PongMaxPlayers == 2
AsteroidsMinPlayers == 2
AsteroidsMaxPlayers == 4

minPlayers(kind) == IF kind = "Pong" THEN PongMinPlayers ELSE AsteroidsMinPlayers
maxPlayers(kind) == IF kind = "Pong" THEN PongMaxPlayers ELSE AsteroidsMaxPlayers

\* The frames a read task forwards to the Hub: a select_game with a game
\* name, or a game input frame (pong_input / asteroids_input).
Messages == [client : Clients, type : {"select_game"}, game : availableGames \cup {InvalidGame}]
            \cup [client : Clients, type : {"input"}, game : {NoVote}]

VARIABLES
    \* connection tasks
    conn,                   \* per client: "idle", "open" (ReadPump runs), "gone"
                            \* (unregister delivered)
    incoming,               \* the Hub's incoming channel (FIFO)
    \* Hub fields
    clients,                \* h.clients
    currentGameSelections,  \* h.currentGameSelections (NoVote: no entry)
    activeGames,            \* keys of h.activeGames
    clientToGame,           \* h.clientToGame (NoGame: no entry)
    Score,                  \* client.Score of every Client object
    gameMutex,              \* "free", or the function that holds it for good
    nextGameID,             \* the next id uuid.New() hands out
    hubPc,                  \* "select", or "blocked" at a lock request
    \* per game instance
    gameKind,               \* "none" until created, then "Pong" / "Asteroids"
    players,                \* g.players / g.playerMap (always changed together)
    isRunning, tickerNil, stopChanClosed,
    loopPc,                 \* position of the goroutine running Start
    stopCalls,              \* "go g.Stop()" goroutines spawned and not yet run
    gfQueue,                \* the GameFinished calls made and not yet past Lock,
                            \* each with the ids that have an entry in result.Scores
    overSnap,               \* Pong sendGameOver: playersToSend
    \* client queues
    sendClosed,             \* close(client.Send) was executed
    panicked,               \* "no", or the runtime panic the process died of
    \* history
    gfCalls,                \* number of GameFinished invocations per game
    finishedUnderMux,       \* games whose Stop invoked GameFinished between
                            \* playerMux.Lock() and playerMux.Unlock()
    lobbyAtStart,           \* at creation: number of registered clients outside
                            \* every game,
    unvotedAtStart,         \* number of those without a vote,
    votersAtStart,          \* and len(participatingClients)
    backToLobby,            \* clients that were sent back_to_lobby
    shownInLobby,           \* of those, the ones a later update_lobby listed
                            \* with inGame = false
    voterLeft,              \* a lobby client with a vote recorded was unregistered
    hubSent,                \* the frames the Hub code sent in the step just taken, in
                            \* the order of the sends (<<>> after any other step)
    lockedCalls,            \* the Game methods the Hub called, in the step just taken,
                            \* between gameMutex.Lock() and Unlock() ({} after any
                            \* other step)
    handledBy,              \* where the Hub routed the frame it dequeued in the step
                            \* just taken, with the game the sender was mapped to
                            \* and the frame's type: <<"game", g, type>>
                            \* (HandleMessage of game g), <<"lobby", NoGame, type>>
                            \* (handleLobbyMessage), <<"stale", g, type>> (the
                            \* mapping was deleted); <<>> after any other step
    dupCount,               \* repeated unregister events the Hub received in a row
                            \* (0 after any other step)
    \* the tasks of one connection in detail (SendSpec, PumpSpec)
    Send,                   \* contents of the Send channel of one open client:
                            \* each frame is the number of the sendMessage call
                            \* that queued it
    sendCalls,              \* sendMessage calls made for that client
    writeExit,              \* clients whose WritePump returned on a write error
                            \* (its deferred Conn.Close() has run)
    \* the paddles of one Pong game in detail (PongSpec)
    PaddleY,                \* PaddleY of the player with role 1 and of the one with
                            \* role 2
    pongRunning,            \* g.isRunning of that game: "no", "starting" (Start is in
                            \* the critical section that sets it), "yes", "stopping"
                            \* (Stop is in the critical section that clears it),
                            \* "stopped"
    pongPending,            \* the input of a HandleMessage call that waits at
                            \* playerMux.Lock(): <<role, direction>>, or <<>>
    lastInput,              \* the last HandleMessage call: <<role, direction, n>>,
                            \* n the number of calls so far modulo 2
    \* the collisions of one Asteroids game in detail (AsteroidsSpec)
    asteroids,              \* g.asteroids: the type of every asteroid id ("none":
                            \* no entry)
    projectiles,            \* g.projectiles: the owner of every projectile id (0: no
                            \* entry)
    astScore,               \* Score of the two players of the game
    nextAstId,              \* the next id uuid.NewString() gives to an asteroid
    astShots, astTicks,     \* projectiles shot and ticks made so far
    lastHits,               \* the collisions "Projectile hit asteroid" of the last
                            \* tick: [proj, ast, type, owner]
    \* the end of one Asteroids game in detail (WinnerSpec)
    wPlayers,               \* keys of g.players
    wDead,                  \* the players whose Health.IsDead()
    wScore,                 \* Score of every player
    wPc,                    \* "new", "loop", "over" (the loop saw gameOver and has
                            \* unlocked playerMux), "done"
    wChecks,                \* number of checkGameOver calls so far modulo 2
    winnerID,               \* what the loop passed to sendGameOver ("none": nothing
                            \* yet)
    \* package character (CharacterSpec)
    index,                  \* the package variable index
    charCalls,              \* number of GetCharacter calls so far
    newCharacter,           \* Name of the Character the last call returned
    \* the players of one Pong game in detail (PongGameSpec)
    pgRole,                 \* Role of every player in g.players (0: not in the map)
    pgScore,                \* Score of every player in g.players
    pgPc,                   \* "new", "run" (the loop runs), "stopping" (RemovePlayer
                            \* has spawned Stop), "over" (the loop saw gameOver and
                            \* returned), "stopped"
    pgWinner,               \* winnerID of the checkGameOver that ended the game
                            \* (0: none)
    pgTicks,                \* number of ticks of the loop so far modulo 2
    \* selectAndStartGame on its own (LockSpec)
    lockCall                \* the call made in the step just taken: "first" (on given
                            \* Hub fields), "again" (on the fields the call before
                            \* left); "none" at the start

connVars == <<conn, incoming>>
pumpVars == <<Send, sendCalls, writeExit>>
pongVars == <<PaddleY, pongRunning, pongPending, lastInput>>
astVars == <<asteroids, projectiles, astScore, nextAstId, astShots, astTicks, lastHits>>
winVars == <<wPlayers, wDead, wScore, wPc, wChecks, winnerID>>
charVars == <<index, charCalls, newCharacter>>
pgVars == <<pgRole, pgScore, pgPc, pgWinner, pgTicks>>
lockVars == <<lockCall>>
extraVars == <<pgVars, lockVars>>
detailVars == <<pongVars, astVars, winVars, charVars, extraVars>>

PongPlayers == 1..MaxPongPlayers

\* Player ids are the clients' ids, strings like the winnerID "draw".
WinIds == <<"p1", "p2", "p3", "p4">>
WinPlayers == {WinIds[i] : i \in 1..MaxWinPlayers}

AstIds == 1..(INITIAL_ASTEROID_COUNT + ASTEROID_SPLIT_COUNT * MaxShots + MaxTicks)
ProjIds == 1..MaxShots
hubVars == <<clients, currentGameSelections, activeGames, clientToGame, Score>>
gameVars == <<gameKind, players, isRunning, tickerNil, stopChanClosed, loopPc,
              stopCalls, gfQueue, overSnap>>
histVars == <<gfCalls, finishedUnderMux, lobbyAtStart, unvotedAtStart, votersAtStart, backToLobby, shownInLobby,
              voterLeft, hubSent, lockedCalls, handledBy, dupCount>>

mainVars == <<connVars, hubVars, gameMutex, nextGameID, hubPc, gameVars, sendClosed,
          panicked, histVars, pumpVars>>
vars == <<mainVars, detailVars>>

Init ==
    /\ conn = [c \in Clients |-> "idle"]
    /\ incoming = <<>>
    /\ clients = {}
    /\ currentGameSelections = [c \in Clients |-> NoVote]
    /\ activeGames = {}
    /\ clientToGame = [c \in Clients |-> NoGame]
    /\ Score = [c \in Clients |-> 0]
    /\ gameMutex = "free"
    /\ nextGameID = 1
    /\ hubPc = "select"
    /\ gameKind = [g \in Games |-> "none"]
    /\ players = [g \in Games |-> {}]
    /\ isRunning = [g \in Games |-> FALSE]
    /\ tickerNil = [g \in Games |-> TRUE]
    /\ stopChanClosed = [g \in Games |-> FALSE]
    /\ loopPc = [g \in Games |-> "none"]
    /\ stopCalls = [g \in Games |-> 0]
    /\ gfQueue = [g \in Games |-> <<>>]
    /\ overSnap = [g \in Games |-> {}]
    /\ sendClosed = [c \in Clients |-> FALSE]
    /\ panicked = "no"
    /\ gfCalls = [g \in Games |-> 0]
    /\ finishedUnderMux = {}
    /\ lobbyAtStart = [g \in Games |-> 0]
    /\ unvotedAtStart = [g \in Games |-> 0]
    /\ votersAtStart = [g \in Games |-> 0]
    /\ backToLobby = {}
    /\ shownInLobby = {}
    /\ voterLeft = FALSE
    /\ hubSent = <<>>
    /\ lockedCalls = {}
    /\ handledBy = <<>>
    /\ dupCount = 0
    /\ Send = <<>>
    /\ sendCalls = 0
    /\ writeExit = {}
    /\ PaddleY = [role \in 1..2 |-> GameHeight \div 2]
    /\ pongRunning = "no"
    /\ pongPending = <<>>
    /\ lastInput = <<0, "stay", 0>>
    /\ asteroids = [id \in AstIds |-> IF id <= INITIAL_ASTEROID_COUNT THEN "large"
                                       ELSE "none"]
    /\ projectiles = [id \in ProjIds |-> 0]
    /\ astScore = [owner \in 1..2 |-> 0]
    /\ nextAstId = INITIAL_ASTEROID_COUNT + 1
    /\ astShots = 0
    /\ astTicks = 0
    /\ lastHits = {}
    /\ wPlayers = {}
    /\ wDead = {}
    /\ wScore = [p \in WinPlayers |-> 0]
    /\ wPc = "new"
    /\ wChecks = 0
    /\ winnerID = "none"
    /\ index = 0
    /\ charCalls = 0
    /\ newCharacter = ""
    /\ pgRole = [p \in PongPlayers |-> 0]
    /\ pgScore = [p \in PongPlayers |-> 0]
    /\ pgPc = "new"
    /\ pgWinner = 0
    /\ pgTicks = 0
    /\ lockCall = "none"

\* The process is alive; gameMutex can be acquired.
Alive == panicked = "no"
MutexFree == gameMutex = "free"

\* --------------------------------------------------------------- connections

\* ReadPump forwards a decoded frame to the Hub's incoming channel.
ClientSend(c, m) ==
    /\ Alive
    /\ UNCHANGED <<pumpVars, detailVars>>
    /\ conn[c] = "open"
    /\ m.client = c
    /\ Len(incoming) < MaxIncoming
    /\ incoming' = Append(incoming, m)
    /\ hubSent' = <<>>
    /\ dupCount' = 0
    /\ lockedCalls' = {}
    /\ handledBy' = <<>>
    /\ UNCHANGED <<conn, hubVars, gameMutex, nextGameID, hubPc, gameVars,
                   sendClosed, panicked, gfCalls, finishedUnderMux, lobbyAtStart, unvotedAtStart, votersAtStart,
                   backToLobby, shownInLobby, voterLeft>>


\* ------------------------------------------------- Hub: pieces of a handler

\* The registered clients that have no entry in clientToGame.
LobbyOf(cl, c2g) == {c \in cl : c2g[c] = NoGame}

checkAllPlayersSelectedGameInternal(cl, c2g, sel) ==
    IF Cardinality(cl) = 0 THEN FALSE
    ELSE LET lobbyClients == Cardinality(LobbyOf(cl, c2g))
             selectedCount == Cardinality({c \in LobbyOf(cl, c2g) : sel[c] # NoVote})
         IN  lobbyClients > 0 /\ selectedCount = lobbyClients

\* Faulty variant of canStart for C9: the unregister case never starts a game.
canStartNever(cl, c2g, sel) == FALSE

\* checkAndPotentiallyStartGame: canStart.
canStart(cl, c2g, sel) ==
    Cardinality(cl) > 1 /\ checkAllPlayersSelectedGameInternal(cl, c2g, sel)

\* client.SendMessage offers the frame to client.Send; a send on a closed
\* channel is a runtime panic, also inside a select with a default case.
SendPanics(S, closed) == \E c \in S : closed[c]

\* The clients selectAndStartGame collects from the vote map.
participatingClients(c2g, sel) == {c \in Clients : sel[c] # NoVote /\ c2g[c] = NoGame}

\* The Game methods selectAndStartGame calls between gameMutex.Lock() and
\* gameMutex.Unlock(): AddPlayer, once the participants are known and the
\* game is created ("go newGame.Start()" starts a goroutine; the Hub does not
\* run Start).
addPlayerCalls(c2g, sel) ==
    IF participatingClients(c2g, sel) = {} THEN {} ELSE {"AddPlayer"}

\* The orders in which a Go map of the clients in S can be iterated.
Orders(S) ==
    {o \in [1..Cardinality(S) -> S] : \A i, j \in 1..Cardinality(S) : o[i] = o[j] => i = j}

\* Faulty variant of AddPlayerOk for C29: a full game accepts players.
AddPlayerNoLimit(kind, present, c) == c \notin present

\* AddPlayer succeeds: the game is not full and the player is not in it.
AddPlayerOk(kind, present, c) == Cardinality(present) < maxPlayers(kind) /\ c \notin present

\* The players of a new game after AddPlayer was called for order[i..].
RECURSIVE AddAll(_, _, _, _)
AddAll(kind, order, i, present) ==
    IF i > Len(order) THEN present
    ELSE AddAll(kind, order, i + 1,
                IF AddPlayerOk(kind, present, order[i]) THEN present \cup {order[i]}
                ELSE present)

\* The clients an update_lobby built from (cl, c2g) lists with inGame = false
\* after they were sent back_to_lobby.
broadcastLobbyUpdate(cl, c2g) ==
    shownInLobby \cup {c \in backToLobby \cap cl : c2g[c] = NoGame}

\* Faulty variant of WelcomeFrame for C17: the welcome names no games.
WelcomeNoGames(c) ==
    [type |-> "welcome", to |-> {c}, clientID |-> c, currentGames |-> {}]

\* The frames of the Hub, each with the clients it is sent to.
WelcomeFrame(c) ==
    [type |-> "welcome", to |-> {c}, clientID |-> c, currentGames |-> availableGames]

\* Faulty variant of ErrorFrame for C18: the error frame reaches nobody.
ErrorToNobody(c) == [type |-> "error", to |-> {}]

ErrorFrame(c) == [type |-> "error", to |-> {c}]

\* Faulty variant of GameSelectedFrame for C12: the frame names the chosen
\* game but carries no usable game id.
GameSelectedNoId(added, selectedGameName, gameID) ==
    [type |-> "game_selected", to |-> added, selectedGame |-> selectedGameName,
     gameID |-> NoGame]

GameSelectedFrame(added, selectedGameName, gameID) ==
    [type |-> "game_selected", to |-> added, selectedGame |-> selectedGameName,
     gameID |-> gameID]

BackToLobbyFrame(S) == [type |-> "back_to_lobby", to |-> S]

\* broadcastLobbyUpdate's payload: a PlayerInfo with Score and InGame for
\* every registered client, sent to every registered client.
UpdateLobbyFrame(cl, c2g) ==
    [type |-> "update_lobby", to |-> cl,
     players |-> [p \in cl |-> [score |-> Score[p], inGame |-> c2g[p] # NoGame]]]

\* The Hub fields and the Hub's position after a handler.
HubState(cl, c2g, sel, ag, mtx, pc) ==
    /\ UNCHANGED Score
    /\ clients' = cl
    /\ clientToGame' = c2g
    /\ currentGameSelections' = sel
    /\ activeGames' = ag
    /\ gameMutex' = mtx
    /\ hubPc' = pc

\* No game instance is created by the handler.
NoNewGame(pl) ==
    /\ players' = pl
    /\ UNCHANGED <<nextGameID, gameKind, loopPc, lobbyAtStart, unvotedAtStart, votersAtStart>>

\* The handler ends in a runtime panic with the Hub fields as given.
Crash(kind, cl, c2g, sel, pl) ==
    /\ panicked' = kind
    /\ HubState(cl, c2g, sel, activeGames, gameMutex, hubPc)
    /\ NoNewGame(pl)
    /\ hubSent' = <<>>
    /\ UNCHANGED shownInLobby

\* The handler returns to the select without starting a game; pre are the
\* frames it sent first, updates tells whether it then broadcast an
\* update_lobby.
Return(cl, c2g, sel, closed, pl, pre, updates) ==
    IF updates /\ SendPanics(cl, closed)
    THEN Crash("send on closed channel", cl, c2g, sel, pl)
    ELSE /\ HubState(cl, c2g, sel, activeGames, gameMutex, "select")
         /\ NoNewGame(pl)
         /\ hubSent' = IF updates THEN Append(pre, UpdateLobbyFrame(cl, c2g)) ELSE pre
         /\ shownInLobby' = IF updates THEN broadcastLobbyUpdate(cl, c2g) ELSE shownInLobby
         /\ UNCHANGED panicked

\* selectAndStartGame returns early, without unlocking gameMutex.
ReturnLocked(cl, c2g, sel, pl, shown, pre) ==
    /\ HubState(cl, c2g, sel, activeGames, "selectAndStartGame", "select")
    /\ NoNewGame(pl)
    /\ hubSent' = pre
    /\ shownInLobby' = shown
    /\ UNCHANGED panicked

\* Faulty variant of clearSelections for C36: the votes stay.
keepSelections(c2g, sel) == sel

\* "Lets clear all previous game selections": the votes of the participating
\* clients are deleted.
clearSelections(c2g, sel) ==
    [c \in Clients |-> IF c \in participatingClients(c2g, sel) THEN NoVote ELSE sel[c]]

\* selectAndStartGame on the Hub fields (cl, c2g, sel); shown is the
\* shownInLobby the caller has reached and pre the frames it has sent.
selectAndStartGame(cl, c2g, sel, closed, pl, shown, pre) ==
    IF Cardinality({c \in Clients : sel[c] # NoVote}) = 0
    THEN ReturnLocked(cl, c2g, sel, pl, shown, pre)
    ELSE IF participatingClients(c2g, sel) = {}
    THEN ReturnLocked(cl, c2g, [c \in Clients |-> NoVote], pl, shown, pre)
    ELSE \E order \in Orders(participatingClients(c2g, sel)),
            randomIndex \in participatingClients(c2g, sel) :
         LET selectedGameName == sel[randomIndex]
             gameID == nextGameID
             added == AddAll(selectedGameName, order, 1, {})
             c2gNew == [c \in Clients |-> IF c \in added THEN gameID ELSE c2g[c]]
             selNew == clearSelections(c2g, sel)
         IN  IF selectedGameName \notin availableGames
             THEN ReturnLocked(cl, c2g, sel, pl, shown, pre)
             ELSE IF SendPanics(added, closed) \/ SendPanics(cl, closed)
             THEN Crash("send on closed channel", cl, c2g, sel, pl)
             ELSE /\ HubState(cl, c2gNew, selNew, activeGames \cup {gameID},
                              gameMutex, "select")
                  /\ nextGameID' = nextGameID + 1
                  /\ gameKind' = [gameKind EXCEPT ![gameID] = selectedGameName]
                  /\ players' = [pl EXCEPT ![gameID] = added]
                  /\ loopPc' = [loopPc EXCEPT ![gameID] = "spawned"]
                  /\ lobbyAtStart' = [lobbyAtStart EXCEPT
                                         ![gameID] = Cardinality(LobbyOf(cl, c2g))]
                  /\ unvotedAtStart' = [unvotedAtStart EXCEPT ![gameID] =
                         Cardinality({c \in LobbyOf(cl, c2g) : sel[c] = NoVote})]
                  /\ votersAtStart' = [votersAtStart EXCEPT ![gameID] =
                         Cardinality(participatingClients(c2g, sel))]
                  /\ shownInLobby' = shown \cup
                                     {c \in backToLobby \cap cl : c2gNew[c] = NoGame}
                  /\ hubSent' = pre \o <<GameSelectedFrame(added, selectedGameName, gameID),
                                          UpdateLobbyFrame(cl, c2gNew)>>
                  /\ UNCHANGED panicked

\* The Hub received an event while gameMutex is held for good: it stays at
\* its first Lock / RLock.
Blocked ==
    /\ hubPc' = "blocked"
    /\ hubSent' = <<>>
    /\ UNCHANGED <<hubVars, gameMutex, nextGameID, gameVars, sendClosed, panicked,
                   gfCalls, finishedUnderMux, lobbyAtStart, unvotedAtStart, votersAtStart, backToLobby, shownInLobby,
                   voterLeft>>

\* ------------------------------------------------------------ Hub: handlers

\* case client := <-h.Register.  Connections are numbered in the order in
\* which serveWs makes them.
Register(c) ==
    /\ Alive
    /\ UNCHANGED <<pumpVars, detailVars>>
    /\ hubPc = "select"
    /\ conn[c] = "idle"
    /\ \A d \in Clients : d < c => conn[d] # "idle"
    /\ conn' = [conn EXCEPT ![c] = "open"]
    /\ dupCount' = 0
    /\ lockedCalls' = {}
    /\ handledBy' = <<>>
    /\ UNCHANGED incoming
    /\ IF ~MutexFree
       THEN Blocked
       ELSE /\ IF sendClosed[c]
               THEN Crash("send on closed channel", clients \cup {c}, clientToGame,
                          currentGameSelections, players)
               ELSE Return(clients \cup {c}, clientToGame, currentGameSelections,
                           sendClosed, players, <<WelcomeFrame(c)>>, TRUE)
            /\ UNCHANGED <<isRunning, tickerNil, stopChanClosed, stopCalls, gfQueue,
                           overSnap, sendClosed, gfCalls, finishedUnderMux, backToLobby, voterLeft>>

\* Faulty variant of isRegistered for C10: the unregister case does not look
\* the client up in h.clients.
alwaysRegistered(c) == TRUE

\* The "ok" of the unregister case: the client is a key of h.clients.
isRegistered(c) == c \in clients

\* Faulty variant of removePlayer for C35: the game keeps the player.
removePlayerKeeps(present, c) == present

\* RemovePlayer deletes the player from the game's players and playerMap.
removePlayer(present, c) == present \ {c}

\* RemovePlayer spawns "go g.Stop()": the count after the removal is below
\* the minimum and the game is running.
removeStops(g, count) == count < minPlayers(gameKind[g]) /\ isRunning[g]

\* case client := <-h.unregister, for a client whose ReadPump runs (dup is
\* FALSE) or whose unregister was delivered before (dup is TRUE): the locked
\* removal with RemovePlayer of the client's game, the
\* update_lobby broadcast and checkAndPotentiallyStartGame.  The send on the
\* unbuffered h.unregister, made by ReadPump when ReadMessage fails, completes
\* in the same step: between the failure and the receive ReadPump does
\* nothing another goroutine can observe.
UnregisterCase(c, dup) ==
    /\ Alive
    /\ UNCHANGED <<pumpVars, detailVars>>
    /\ hubPc = "select"
    /\ conn[c] = IF dup THEN "gone" ELSE "open"
    /\ conn' = [conn EXCEPT ![c] = "gone"]
    /\ dupCount' = IF dup THEN dupCount + 1 ELSE 0
    /\ UNCHANGED incoming
    /\ IF ~MutexFree
       THEN Blocked /\ lockedCalls' = {} /\ handledBy' = <<>>
       ELSE LET ok == isRegistered(c)
                g == clientToGame[c]
                call == ok /\ g # NoGame /\ g \in activeGames
                inGame == call /\ c \in players[g]
                after == IF inGame THEN removePlayer(players[g], c) ELSE {}
                cl == IF ok THEN clients \ {c} ELSE clients
                c2g == IF ok THEN [clientToGame EXCEPT ![c] = NoGame] ELSE clientToGame
                sel == IF ok THEN [currentGameSelections EXCEPT ![c] = NoVote]
                       ELSE currentGameSelections
                closed == IF ok THEN [sendClosed EXCEPT ![c] = TRUE] ELSE sendClosed
                pl == IF inGame THEN [players EXCEPT ![g] = after] ELSE players
            IN  /\ sendClosed' = closed
                /\ stopCalls' = IF inGame /\ removeStops(g, Cardinality(after))
                                THEN [stopCalls EXCEPT ![g] = @ + 1] ELSE stopCalls
                /\ voterLeft' = (voterLeft \/ (ok /\ g = NoGame
                                                   /\ currentGameSelections[c] # NoVote))
                /\ IF ok /\ sendClosed[c]
                   THEN Crash("close of closed channel", cl, c2g, sel, pl)
                   ELSE IF SendPanics(cl, closed)
                   THEN Crash("send on closed channel", cl, c2g, sel, pl)
                   ELSE IF canStart(cl, c2g, sel)
                   THEN selectAndStartGame(cl, c2g, sel, closed, pl,
                                           broadcastLobbyUpdate(cl, c2g),
                                           <<UpdateLobbyFrame(cl, c2g)>>)
                   ELSE Return(cl, c2g, sel, closed, pl, <<>>, TRUE)
                /\ handledBy' = <<>>
                /\ lockedCalls' =
                       (IF call THEN {"RemovePlayer"} ELSE {}) \cup
                       (IF /\ ~(ok /\ sendClosed[c])
                           /\ ~SendPanics(cl, closed)
                           /\ canStart(cl, c2g, sel)
                        THEN addPlayerCalls(c2g, sel)
                        ELSE {})
                /\ UNCHANGED <<isRunning, tickerNil, stopChanClosed, gfQueue, overSnap,
                               gfCalls, finishedUnderMux, backToLobby>>

Unregister(c) ==
    /\ Cardinality({d \in Clients : conn[d] = "gone"}) < MaxDisconnects
    /\ UnregisterCase(c, FALSE)

\* Faulty variant of routeOf for C28: every frame goes to the lobby handler.
routeAllToLobby(g) == "lobby"

\* The branch of case hubMsg := <-h.incoming for a sender mapped to game g.
routeOf(g) ==
    IF g = NoGame THEN "lobby" ELSE IF g \in activeGames THEN "game" ELSE "stale"

\* case hubMsg := <-h.incoming: routing by clientToGame, then HandleMessage of
\* the game or handleLobbyMessage.
Incoming ==
    /\ Alive
    /\ UNCHANGED <<pumpVars, detailVars>>
    /\ hubPc = "select"
    /\ incoming # <<>>
    /\ incoming' = Tail(incoming)
    /\ dupCount' = 0
    /\ UNCHANGED conn
    /\ IF ~MutexFree
       THEN Blocked /\ lockedCalls' = {} /\ handledBy' = <<>>
       ELSE LET hubMsg == Head(incoming)
                c == hubMsg.client
                g == clientToGame[c]
                voted == [currentGameSelections EXCEPT ![c] = hubMsg.game]
            IN  /\ IF routeOf(g) # "lobby"
                   THEN \* HandleMessage of the game, or the stale mapping is dropped
                        Return(clients,
                               IF routeOf(g) = "game" THEN clientToGame
                               ELSE [clientToGame EXCEPT ![c] = NoGame],
                               currentGameSelections, sendClosed, players, <<>>, FALSE)
                   ELSE IF hubMsg.type # "select_game"
                   THEN Return(clients, clientToGame, currentGameSelections, sendClosed,
                               players, <<>>, FALSE)
                   ELSE IF hubMsg.game \notin availableGames
                   THEN \* client.SendMessage(message.Error, ...)
                        IF sendClosed[c]
                        THEN Crash("send on closed channel", clients, clientToGame,
                                   currentGameSelections, players)
                        ELSE Return(clients, clientToGame, currentGameSelections,
                                    sendClosed, players, <<ErrorFrame(c)>>, FALSE)
                   ELSE IF checkAllPlayersSelectedGameInternal(clients, clientToGame, voted)
                   THEN selectAndStartGame(clients, clientToGame, voted, sendClosed,
                                           players, shownInLobby, <<>>)
                   ELSE Return(clients, clientToGame, voted, sendClosed, players, <<>>,
                               FALSE)
                /\ handledBy' = <<routeOf(g), g, hubMsg.type>>
                /\ lockedCalls' =
                       IF /\ routeOf(g) = "lobby"
                          /\ hubMsg.type = "select_game"
                          /\ hubMsg.game \in availableGames
                          /\ checkAllPlayersSelectedGameInternal(clients, clientToGame, voted)
                       THEN addPlayerCalls(clientToGame, voted)
                       ELSE {}
                /\ UNCHANGED <<isRunning, tickerNil, stopChanClosed, stopCalls, gfQueue,
                               overSnap, sendClosed, gfCalls, finishedUnderMux, backToLobby, voterLeft>>

\* ------------------------------------------------------------- GameFinished

\* Faulty variant of clientsToRemove for C2: GameFinished deletes the game
\* and leaves its clients mapped to it.
noClientsToRemove(g) == {}

\* The clients GameFinished takes out of clientToGame.
clientsToRemove(g) == {c \in Clients : clientToGame[c] = g}

\* A sequence without its i-th element.
RemoveAt(q, i) == SubSeq(q, 1, i - 1) \o SubSeq(q, i + 1, Len(q))

\* Faulty variant of updateScoresInternal for C13: every delta is added
\* twice.
updateScoresTwice(scores) ==
    [c \in Clients |-> IF c \in clients /\ c \in DOMAIN scores
                       THEN Score[c] + 2 * scores[c] ELSE Score[c]]

\* updateScoresInternal: the delta of every id in scores is added to the
\* Score of the registered client with that id, if there is one.
updateScoresInternal(scores) ==
    [c \in Clients |-> IF c \in clients /\ c \in DOMAIN scores
                       THEN Score[c] + scores[c] ELSE Score[c]]

\* The result.Scores a call can carry for the given ids: the score each
\* player held when Stop copied it.  The values are fixed by Stop, and
\* nothing reads them before GameFinished does; they are drawn there.
resultScores(ids) == [ids -> 0..MaxScore]

\* Hub.GameFinished, run by the goroutine that called it.  For an active
\* game it removes the game and its clients, sends back_to_lobby and then
\* calls broadcastLobbyUpdate with gameMutex still locked: the RLock there is
\* never granted, so the deferred Unlock never runs.
GameFinished(g) ==
    /\ Alive
    /\ UNCHANGED <<pumpVars, detailVars>>
    /\ dupCount' = 0
    /\ lockedCalls' = {}
    /\ handledBy' = <<>>
    /\ MutexFree
    /\ \E call \in 1..Len(gfQueue[g]) : \E scores \in resultScores(gfQueue[g][call]) :
             /\ gfQueue' = [gfQueue EXCEPT ![g] = RemoveAt(@, call)]
             /\ IF g \in activeGames
                THEN IF SendPanics(clientsToRemove(g), sendClosed)
                     THEN /\ panicked' = "send on closed channel"
                          /\ hubSent' = <<>>
                          /\ UNCHANGED <<activeGames, clientToGame, Score, backToLobby,
                                         gameMutex>>
                     ELSE /\ activeGames' = activeGames \ {g}
                          /\ hubSent' = <<BackToLobbyFrame(clientsToRemove(g))>>
                          /\ clientToGame' = [c \in Clients |->
                                                IF c \in clientsToRemove(g) THEN NoGame
                                                ELSE clientToGame[c]]
                          /\ backToLobby' = backToLobby \cup clientsToRemove(g)
                          /\ Score' = updateScoresInternal(scores)
                          /\ gameMutex' = "GameFinished"
                          /\ UNCHANGED panicked
                ELSE /\ hubSent' = <<>>
                     /\ UNCHANGED <<activeGames, clientToGame, Score, backToLobby,
                                    gameMutex, panicked>>
    /\ UNCHANGED <<connVars, clients, currentGameSelections, nextGameID, hubPc,
                   gameKind, players, isRunning, tickerNil, stopChanClosed, loopPc,
                   stopCalls, overSnap, sendClosed, gfCalls, finishedUnderMux, lobbyAtStart,
                   unvotedAtStart, votersAtStart, shownInLobby, voterLeft>>

\* --------------------------------------------------------------- game tasks

\* Stop calls GameFinished: always in Pong, only for a running game in
\* Asteroids.
stopNotifies(g) == gameKind[g] = "Pong" \/ isRunning[g]

\* The ids in the result.Scores that Stop builds: every player of a running
\* game; none for a game that is not running (Pong's empty result).
finalScores(g) == IF isRunning[g] THEN players[g] ELSE {}

\* Faulty variant of StopPath for C23: the Unlock is deferred to the return
\* of Stop.
StopPathDeferred(g) ==
    <<"Lock">> \o (IF stopNotifies(g) THEN <<"GameFinished">> ELSE <<>>) \o <<"Unlock">>

\* What one execution of g.Stop() does with playerMux and the callback, in
\* order: every path locks, unlocks after its work on the game's fields, and
\* then, if it notifies the Hub at all, invokes GameFinished.
StopPath(g) ==
    <<"Lock", "Unlock">> \o (IF stopNotifies(g) THEN <<"GameFinished">> ELSE <<>>)

\* playerMux is held by the goroutine after the first n events of path.
RECURSIVE MuxHeld(_, _)
MuxHeld(path, n) ==
    IF n = 0 THEN FALSE
    ELSE IF path[n] = "Lock" THEN TRUE
    ELSE IF path[n] = "Unlock" THEN FALSE
    ELSE MuxHeld(path, n - 1)

\* The effect of one execution of g.Stop() on the game.
Stop(g) ==
    /\ finishedUnderMux' = finishedUnderMux \cup
          {h \in {g} : \E i \in 1..Len(StopPath(g)) :
                          StopPath(g)[i] = "GameFinished" /\ MuxHeld(StopPath(g), i - 1)}
    /\ isRunning' = [isRunning EXCEPT ![g] = FALSE]
    /\ tickerNil' = [tickerNil EXCEPT ![g] =
                        IF gameKind[g] = "Asteroids" /\ isRunning[g] THEN TRUE ELSE @]
    /\ stopChanClosed' = [stopChanClosed EXCEPT ![g] =
                        IF gameKind[g] = "Pong" \/ isRunning[g] THEN TRUE ELSE @]
    /\ gfQueue' = [gfQueue EXCEPT ![g] =
                      IF stopNotifies(g) THEN Append(@, finalScores(g)) ELSE @]
    /\ gfCalls' = [gfCalls EXCEPT ![g] = IF stopNotifies(g) THEN @ + 1 ELSE @]

\* What a game goroutine never touches.
gameFrame == <<connVars, pumpVars, detailVars, hubVars, gameMutex, nextGameID, hubPc, gameKind, players,
               sendClosed, lobbyAtStart, unvotedAtStart, votersAtStart, backToLobby, shownInLobby,
               voterLeft>>

\* A "go g.Stop()" goroutine spawned by RemovePlayer runs.
StopTask(g) ==
    /\ Alive
    /\ hubSent' = <<>>
    /\ dupCount' = 0
    /\ lockedCalls' = {}
    /\ handledBy' = <<>>
    /\ stopCalls[g] > 0
    /\ stopCalls' = [stopCalls EXCEPT ![g] = @ - 1]
    /\ Stop(g)
    /\ UNCHANGED <<gameFrame, loopPc, overSnap, panicked>>

\* Start refuses to run the loop: Asteroids with fewer than minPlayers, Pong
\* with a player count other than MinPlayers.
startRefuses(g) ==
    IF gameKind[g] = "Pong" THEN Cardinality(players[g]) # PongMinPlayers
    ELSE Cardinality(players[g]) < AsteroidsMinPlayers

\* Start up to the loop: it calls Stop and returns, or marks the game running.
Start(g) ==
    /\ Alive
    /\ hubSent' = <<>>
    /\ dupCount' = 0
    /\ lockedCalls' = {}
    /\ handledBy' = <<>>
    /\ loopPc[g] = "spawned"
    /\ IF startRefuses(g)
       THEN /\ Stop(g)
            /\ loopPc' = [loopPc EXCEPT ![g] = "done"]
       ELSE /\ isRunning' = [isRunning EXCEPT ![g] = TRUE]
            /\ tickerNil' = [tickerNil EXCEPT ![g] = FALSE]
            /\ loopPc' = [loopPc EXCEPT ![g] = "loop"]
            /\ UNCHANGED <<stopChanClosed, gfQueue, gfCalls, finishedUnderMux>>
    /\ UNCHANGED <<gameFrame, stopCalls, overSnap, panicked>>

\* The loop evaluates its select: "case <-g.ticker.C" reads g.ticker, which
\* Asteroids' Stop sets to nil.
LoopSelect(g) ==
    /\ Alive
    /\ hubSent' = <<>>
    /\ dupCount' = 0
    /\ lockedCalls' = {}
    /\ handledBy' = <<>>
    /\ loopPc[g] = "loop"
    /\ IF gameKind[g] = "Asteroids" /\ tickerNil[g]
       THEN /\ panicked' = "nil dereference"
            /\ UNCHANGED loopPc
       ELSE /\ loopPc' = [loopPc EXCEPT ![g] = "select"]
            /\ UNCHANGED panicked
    /\ UNCHANGED <<gameFrame, isRunning, tickerNil, stopChanClosed, stopCalls, gfQueue,
                   overSnap, gfCalls, finishedUnderMux>>

\* case <-g.stopChan
LoopStopSignal(g) ==
    /\ Alive
    /\ hubSent' = <<>>
    /\ dupCount' = 0
    /\ lockedCalls' = {}
    /\ handledBy' = <<>>
    /\ loopPc[g] = "select"
    /\ stopChanClosed[g]
    /\ loopPc' = [loopPc EXCEPT ![g] = "done"]
    /\ UNCHANGED <<gameFrame, isRunning, tickerNil, stopChanClosed, stopCalls, gfQueue,
                   overSnap, gfCalls, finishedUnderMux, panicked>>

\* case <-g.ticker.C, and the unlocked read of g.isRunning.
LoopTick(g) ==
    /\ Alive
    /\ hubSent' = <<>>
    /\ dupCount' = 0
    /\ lockedCalls' = {}
    /\ handledBy' = <<>>
    /\ loopPc[g] = "select"
    /\ loopPc' = [loopPc EXCEPT ![g] = IF isRunning[g] THEN "tick" ELSE "done"]
    /\ UNCHANGED <<gameFrame, isRunning, tickerNil, stopChanClosed, stopCalls, gfQueue,
                   overSnap, gfCalls, finishedUnderMux, panicked>>

\* checkGameOver can report game over: Pong needs both roles, Asteroids at
\* least minPlayers players.
canBeOver(g) == Cardinality(players[g]) >= minPlayers(gameKind[g])

\* The players sendGameState sends to: Pong sends nothing unless both roles
\* are present.
stateReceivers(g) ==
    IF gameKind[g] = "Pong" /\ Cardinality(players[g]) < 2 THEN {} ELSE players[g]

\* The locked part of a tick: update, sendGameState, checkGameOver.
LoopUpdate(g) ==
    /\ Alive
    /\ hubSent' = <<>>
    /\ dupCount' = 0
    /\ lockedCalls' = {}
    /\ handledBy' = <<>>
    /\ loopPc[g] = "tick"
    /\ IF SendPanics(stateReceivers(g), sendClosed)
       THEN /\ panicked' = "send on closed channel"
            /\ UNCHANGED loopPc
       ELSE /\ \E gameOver \in BOOLEAN :
                 /\ gameOver => canBeOver(g)
                 /\ loopPc' = [loopPc EXCEPT ![g] = IF gameOver THEN "over" ELSE "loop"]
            /\ UNCHANGED panicked
    /\ UNCHANGED <<gameFrame, isRunning, tickerNil, stopChanClosed, stopCalls, gfQueue,
                   overSnap, gfCalls, finishedUnderMux>>

\* Pong's sendGameOver copies playerMap under RLock (playersToSend).
PongSnapshot(g) ==
    /\ Alive
    /\ hubSent' = <<>>
    /\ dupCount' = 0
    /\ lockedCalls' = {}
    /\ handledBy' = <<>>
    /\ loopPc[g] = "over"
    /\ gameKind[g] = "Pong"
    /\ overSnap' = [overSnap EXCEPT ![g] = players[g]]
    /\ loopPc' = [loopPc EXCEPT ![g] = "sendOver"]
    /\ UNCHANGED <<gameFrame, isRunning, tickerNil, stopChanClosed, stopCalls, gfQueue,
                   gfCalls, finishedUnderMux, panicked>>

\* The players sendGameOver sends to: Pong's playersToSend after RUnlock,
\* Asteroids' playerMap under RLock.
overReceivers(g) == IF gameKind[g] = "Pong" THEN overSnap[g] ELSE players[g]

\* The game-over frames and the loop's own g.Stop().
GameOver(g) ==
    /\ Alive
    /\ hubSent' = <<>>
    /\ dupCount' = 0
    /\ lockedCalls' = {}
    /\ handledBy' = <<>>
    /\ \/ loopPc[g] = "sendOver" /\ gameKind[g] = "Pong"
       \/ loopPc[g] = "over" /\ gameKind[g] = "Asteroids"
    /\ IF SendPanics(overReceivers(g), sendClosed)
       THEN /\ panicked' = "send on closed channel"
            /\ UNCHANGED <<loopPc, isRunning, tickerNil, stopChanClosed, gfQueue, gfCalls, finishedUnderMux>>
       ELSE /\ Stop(g)
            /\ loopPc' = [loopPc EXCEPT ![g] = "done"]
            /\ UNCHANGED panicked
    /\ UNCHANGED <<gameFrame, stopCalls, overSnap>>

\* ------------------------------------------------------------ specification

\* The Hub loop when serveWs makes n connections in all.
HubNextOf(n) ==
    \/ \E c \in 1..n : Register(c)
    \/ \E c \in Clients : Unregister(c)
    \/ Incoming

HubNext == HubNextOf(NumClients)

\* The goroutine that runs Start.
LoopNext(g) ==
    \/ Start(g)
    \/ LoopSelect(g)
    \/ LoopStopSignal(g)
    \/ LoopTick(g)
    \/ LoopUpdate(g)
    \/ PongSnapshot(g)
    \/ GameOver(g)

GameNext(g) ==
    \/ GameFinished(g)
    \/ StopTask(g)
    \/ LoopNext(g)

ConnNext == \E m \in Messages : ClientSend(m.client, m)

\* Frames of the types the games handle; they carry no game name.
InputMessages == [client : Clients, type : {"pong_input", "asteroids_input"},
                  game : {InvalidGame}]

NextOf(n) ==
    \/ ConnNext
    \/ HubNextOf(n)
    \/ \E g \in Games : GameNext(g)

Next == NextOf(NumClients)

Spec == Init /\ [][Next]_vars

\* The program with FairClients connections whose clients send frames of
\* every type.
NextRoute ==
    \/ NextOf(FairClients)
    \/ \E m \in InputMessages : ClientSend(m.client, m)

RouteSpec == Init /\ [][NextRoute]_vars

\* The Go scheduler keeps running every goroutine that can take a step: the
\* Hub loop, the goroutine of Start, the "go g.Stop()" goroutines and the
\* goroutines inside GameFinished.  Connections send frames or not as they
\* please.
FairSpec ==
    /\ Init /\ [][NextOf(FairClients)]_vars
    /\ WF_vars(HubNextOf(FairClients))
    /\ \A g \in Games : /\ WF_vars(LoopNext(g))
                         /\ WF_vars(StopTask(g))
                         /\ WF_vars(GameFinished(g))

\* The unregister case for a client whose read task already delivered its
\* unregister: the same client arrives on h.unregister a second time.
DupUnregister(c) ==
    /\ dupCount < MaxDup
    /\ UnregisterCase(c, TRUE)

NextDup ==
    \/ NextOf(FairClients)
    \/ \E c \in Clients : DupUnregister(c)

SpecDup == Init /\ [][NextDup]_vars

\* ------------------------------------------- one connection's Send channel

\* What sendMessage and WritePump's writes leave alone: everything but the
\* Send channel and the count of calls.
sendFrame == <<connVars, hubVars, gameMutex, nextGameID, hubPc, gameVars, sendClosed,
               panicked, histVars, writeExit, detailVars>>

\* Faulty variant of offer for C19: a full channel gives up its oldest frame.
offerEvicting(q, f) == IF Len(q) < SendCapacity THEN Append(q, f) ELSE Append(Tail(q), f)

\* select { case c.Send <- messageBytes: default: } on a channel that holds q.
offer(q, f) == IF Len(q) < SendCapacity THEN Append(q, f) ELSE q

\* Client.sendMessage for a client whose Send channel is open: the frame of
\* this call is queued or dropped, and the call returns.
sendMessage ==
    /\ sendCalls < MaxSendCalls
    /\ sendCalls' = sendCalls + 1
    /\ Send' = offer(Send, sendCalls + 1)
    /\ UNCHANGED sendFrame

\* WritePump: case message, ok := <-c.Send with ok true, and the write
\* succeeds.
WriteFrame ==
    /\ Send # <<>>
    /\ Send' = Tail(Send)
    /\ UNCHANGED <<sendCalls, sendFrame>>

NextSend ==
    \/ sendMessage
    \/ WriteFrame

SendSpec == Init /\ [][NextSend]_vars

\* ------------------------------------------------- the paddles of one Pong game

Directions == {"up", "down", "stay"}

\* Faulty variant of clamp for C24: no upper limit.
clampLowOnly(newY) == IF newY < PaddleHeight \div 2 THEN PaddleHeight \div 2 ELSE newY

\* math.Max(halfPaddle, math.Min(GameHeight-halfPaddle, newY))
clamp(newY) ==
    LET halfPaddle == PaddleHeight \div 2
        low == IF GameHeight - halfPaddle < newY THEN GameHeight - halfPaddle ELSE newY
    IN  IF halfPaddle > low THEN halfPaddle ELSE low

\* newY of HandleMessage for a paddle at y.
moved(y, direction) ==
    IF direction = "up" THEN y + PaddleSpeed
    ELSE IF direction = "down" THEN y - PaddleSpeed
    ELSE y

\* Reset: every paddle goes back to the middle.
Reset == [role \in 1..2 |-> GameHeight \div 2]

\* Start of a Pong game with two players enters its critical section: it
\* sets isRunning and calls Reset.
PongStart ==
    /\ pongRunning = "no"
    /\ pongRunning' = "starting"
    /\ PaddleY' = Reset
    /\ UNCHANGED <<pongPending, lastInput, mainVars, astVars, winVars, charVars, extraVars>>

\* Stop of the running game enters its critical section: it clears
\* isRunning.
PongStop ==
    /\ pongRunning = "yes"
    /\ pongRunning' = "stopping"
    /\ UNCHANGED <<PaddleY, pongPending, lastInput, mainVars, astVars, winVars, charVars, extraVars>>

\* playerMux.Unlock() of Start and of Stop.
PongUnlock ==
    /\ pongRunning \in {"starting", "stopping"}
    /\ pongRunning' = IF pongRunning = "starting" THEN "yes" ELSE "stopped"
    /\ UNCHANGED <<PaddleY, pongPending, lastInput, mainVars, astVars, winVars, charVars, extraVars>>

\* update, in the loop's critical section: a point is scored and Reset is
\* called.
PongPoint ==
    /\ pongRunning = "yes"
    /\ PaddleY' = Reset
    /\ UNCHANGED <<pongRunning, pongPending, lastInput, mainVars, astVars, winVars, charVars, extraVars>>

\* The values the Hub goroutine can read from g.isRunning in HandleMessage.
\* The read is made without playerMux and the writes are made under it by
\* the game's goroutines: a read made while Start or Stop is in its critical
\* section is a data race and returns the old or the new value.
isRunningRead ==
    IF pongRunning \in {"starting", "stopping"} THEN {TRUE, FALSE}
    ELSE {pongRunning = "yes"}

\* HandleMessage for a pong_input of the player with the given role: it
\* returns when it reads isRunning false; otherwise it locks playerMux, at
\* once or after the goroutine that holds it, and moves the paddle.
PongHandleMessage(role, direction) ==
    /\ pongPending = <<>>
    /\ lastInput' = <<role, direction, 1 - lastInput[3]>>
    /\ \E running \in isRunningRead :
          IF ~running
          THEN UNCHANGED <<PaddleY, pongPending>>
          ELSE IF pongRunning \in {"starting", "stopping"}
          THEN /\ pongPending' = <<role, direction>>
               /\ UNCHANGED PaddleY
          ELSE /\ PaddleY' = [PaddleY EXCEPT ![role] = clamp(moved(@, direction))]
               /\ UNCHANGED pongPending
    /\ UNCHANGED <<pongRunning, mainVars, astVars, winVars, charVars, extraVars>>

\* The HandleMessage call that waited at playerMux.Lock() gets the mutex.
PongLocked ==
    /\ pongPending # <<>>
    /\ pongRunning \notin {"starting", "stopping"}
    /\ PaddleY' = [PaddleY EXCEPT ![pongPending[1]] = clamp(moved(@, pongPending[2]))]
    /\ pongPending' = <<>>
    /\ UNCHANGED <<pongRunning, lastInput, mainVars, astVars, winVars, charVars, extraVars>>

NextPong ==
    \/ PongStart
    \/ PongStop
    \/ PongUnlock
    \/ PongPoint
    \/ \E role \in 1..2, direction \in Directions : PongHandleMessage(role, direction)
    \/ PongLocked

PongSpec == Init /\ [][NextPong]_vars

\* --------------------------------------- the collisions of one Asteroids game

points(type) ==
    IF type = "large" THEN ASTEROID_POINTS_LARGE
    ELSE IF type = "middle" THEN ASTEROID_POINTS_MIDDLE
    ELSE ASTEROID_POINTS_SMALL

\* splitAsteroid: the type of the pieces ("none": the asteroid does not
\* split).
nextType(type) ==
    IF type = "large" THEN "middle" ELSE IF type = "middle" THEN "small" ELSE "none"

\* The ids splitAsteroid gives to the pieces of an asteroid of the given
\* type when uuid.NewString() is at next.
pieces(type, next) ==
    IF nextType(type) = "none" THEN {} ELSE next..(next + ASTEROID_SPLIT_COUNT - 1)

\* The body of "if checkCollision(proj.Pos, ast.Pos, ...)" for projectile p
\* and asteroid a: both are marked, the owner is credited, and splitAsteroid
\* calls spawnAsteroid, which puts every piece into g.asteroids at once and
\* returns it for asteroidsToAdd.
hit(st, p, a) ==
    LET type == st.asteroids[a]
        new == pieces(type, st.next)
    IN  [asteroids |-> [id \in AstIds |-> IF id \in new THEN nextType(type)
                                          ELSE st.asteroids[id]],
         clearProjectiles |-> st.clearProjectiles \cup {p},
         clearAsteroids |-> st.clearAsteroids \cup {a},
         asteroidsToAdd |-> st.asteroidsToAdd \cup new,
         score |-> [st.score EXCEPT ![projectiles[p]] = @ + points(type)],
         next |-> st.next + Cardinality(new),
         hits |-> st.hits \cup {[proj |-> p, ast |-> a, type |-> type,
                                 owner |-> projectiles[p]]},
         possible |-> st.possible /\ type # "none" /\ a \notin st.clearAsteroids]

\* The loop "Projectile vs Asteroid" from the i-th projectile of the
\* iteration order on; target[p] is the asteroid the inner loop finds in
\* collision with p first among those it does not skip (0: none).  The inner
\* loop ranges over g.asteroids as it is at that moment, pieces of earlier
\* hits included.
RECURSIVE projectileLoop(_, _, _, _)
projectileLoop(order, target, i, st) ==
    IF i > Len(order) THEN st
    ELSE projectileLoop(order, target, i + 1,
                        IF target[order[i]] = 0 THEN st
                        ELSE hit(st, order[i], target[order[i]]))

\* "Apply Removals and Additions" and "Spawn new Asteroids" on the result of
\* the collision loop: the marked asteroids are deleted, then every asteroid
\* of asteroidsToAdd is stored, then a large one is spawned if fewer than
\* INITIAL_ASTEROID_COUNT/2 are left.
applyRemovalsAndAdditions(st) ==
    LET deleted == [id \in AstIds |-> IF id \in st.clearAsteroids THEN "none"
                                      ELSE st.asteroids[id]]
        added == [id \in AstIds |-> IF id \in st.asteroidsToAdd THEN st.asteroids[id]
                                    ELSE deleted[id]]
        count == Cardinality({id \in AstIds : added[id] # "none"})
    IN  IF count < INITIAL_ASTEROID_COUNT \div 2
        THEN [asteroids |-> [added EXCEPT ![st.next] = "large"], next |-> st.next + 1]
        ELSE [asteroids |-> added, next |-> st.next]

\* update, from "Collision Detection" on, in a tick in which no player
\* touches an asteroid and no projectile expires: the geometry decides which
\* projectile meets which asteroid, the maps decide the iteration orders.
AstTick ==
    /\ astTicks < MaxTicks
    /\ astTicks' = astTicks + 1
    /\ LET live == {p \in ProjIds : projectiles[p] # 0}
       IN  \E order \in Orders(live), target \in [live -> {0} \cup AstIds] :
              LET st == projectileLoop(order, target, 1,
                            [asteroids |-> asteroids, clearProjectiles |-> {},
                             clearAsteroids |-> {}, asteroidsToAdd |-> {},
                             score |-> astScore, next |-> nextAstId, hits |-> {},
                             possible |-> TRUE])
                  end == applyRemovalsAndAdditions(st)
              IN  /\ st.possible
                  /\ asteroids' = end.asteroids
                  /\ nextAstId' = end.next
                  /\ projectiles' = [p \in ProjIds |-> IF p \in st.clearProjectiles THEN 0
                                                      ELSE projectiles[p]]
                  /\ astScore' = st.score
                  /\ lastHits' = st.hits
    /\ UNCHANGED <<astShots, mainVars, pongVars, winVars, charVars, extraVars>>

\* spawnProjectile for a player of the game.
AstShoot(owner) ==
    /\ astShots < MaxShots
    /\ astShots' = astShots + 1
    /\ projectiles' = [projectiles EXCEPT ![astShots + 1] = owner]
    /\ lastHits' = {}
    /\ UNCHANGED <<asteroids, astScore, nextAstId, astTicks, mainVars, pongVars, winVars, charVars, extraVars>>

NextAsteroids ==
    \/ \E owner \in 1..2 : AstShoot(owner)
    \/ AstTick

AsteroidsSpec == Init /\ [][NextAsteroids]_vars

\* ---------------------------------------------- the end of one Asteroids game

\* Faulty variant of determineWinner for C26: a draw is never announced.
determineWinnerNoDraw(pl, dead, score) ==
    IF pl \ dead # {} THEN CHOOSE p \in pl \ dead : TRUE
    ELSE IF pl # {} THEN CHOOSE p \in pl : \A q \in pl : score[q] <= score[p]
    ELSE ""

\* checkGameOver: at least minPlayers players and at most one of them alive.
checkGameOver(pl, dead) ==
    Cardinality(pl) >= AsteroidsMinPlayers /\ Cardinality(pl \ dead) <= 1

\* determineWinner on the players pl.
determineWinner(pl, dead, score) ==
    LET alivePlayers == pl \ dead
        highestScore == IF pl = {} THEN -1
                        ELSE CHOOSE h \in {score[p] : p \in pl} :
                                 \A p \in pl : score[p] <= h
        topScorers == {p \in pl : score[p] = highestScore}
        winners == {p \in alivePlayers : \A q \in alivePlayers : score[q] <= score[p]}
    IN  IF Cardinality(alivePlayers) = 1 THEN CHOOSE p \in alivePlayers : TRUE
        ELSE IF Cardinality(alivePlayers) = 0 /\ highestScore >= 0
        THEN IF Cardinality(topScorers) = 1 THEN CHOOSE p \in topScorers : TRUE
             ELSE "draw"
        ELSE IF Cardinality(alivePlayers) > 1
        THEN IF Cardinality(winners) = 1 THEN CHOOSE p \in winners : TRUE ELSE "draw"
        ELSE ""

winFrame == <<mainVars, pongVars, astVars, charVars, extraVars>>

\* AddPlayer before the game is started.
WinAddPlayer(p) ==
    /\ wPc = "new"
    /\ p \notin wPlayers
    /\ \E i \in 1..MaxWinPlayers :
           p = WinIds[i] /\ \A j \in 1..(i - 1) : WinIds[j] \in wPlayers
    /\ Cardinality(wPlayers) < AsteroidsMaxPlayers
    /\ wPlayers' = wPlayers \cup {p}
    /\ UNCHANGED <<wDead, wScore, wPc, wChecks, winnerID, winFrame>>

\* Start with enough players: the loop runs.
WinStart ==
    /\ wPc = "new"
    /\ Cardinality(wPlayers) >= AsteroidsMinPlayers
    /\ wPc' = "loop"
    /\ UNCHANGED <<wPlayers, wDead, wScore, wChecks, winnerID, winFrame>>

\* update: a projectile of a living player hits an asteroid.
WinScore(p) ==
    /\ wPc = "loop"
    /\ p \in wPlayers \ wDead
    /\ wScore[p] < MaxWinScore
    /\ wScore' = [wScore EXCEPT ![p] = @ + 1]
    /\ UNCHANGED <<wPlayers, wDead, wPc, wChecks, winnerID, winFrame>>

\* update: an asteroid takes the last health point of a player.
WinDie(p) ==
    /\ wPc = "loop"
    /\ p \in wPlayers \ wDead
    /\ wDead' = wDead \cup {p}
    /\ UNCHANGED <<wPlayers, wScore, wPc, wChecks, winnerID, winFrame>>

\* RemovePlayer, called by the Hub when the client is unregistered: at any
\* time, also between the loop's check and its determineWinner.
WinRemovePlayer(p) ==
    /\ wPc \in {"loop", "over"}
    /\ p \in wPlayers
    /\ wPlayers' = wPlayers \ {p}
    /\ UNCHANGED <<wDead, wScore, wPc, wChecks, winnerID, winFrame>>

\* The loop's critical section ends with checkGameOver.
WinCheck ==
    /\ wPc = "loop"
    /\ wChecks' = 1 - wChecks
    /\ wPc' = IF checkGameOver(wPlayers, wDead) THEN "over" ELSE "loop"
    /\ UNCHANGED <<wPlayers, wDead, wScore, winnerID, winFrame>>

\* The loop takes playerMux.RLock(), calls determineWinner and passes the
\* result to sendGameOver.
WinAnnounce ==
    /\ wPc = "over"
    /\ wPc' = "done"
    /\ winnerID' = determineWinner(wPlayers, wDead, wScore)
    /\ UNCHANGED <<wPlayers, wDead, wScore, wChecks, winFrame>>

NextWinner ==
    \/ \E p \in WinPlayers : WinAddPlayer(p)
    \/ WinStart
    \/ \E p \in WinPlayers : WinScore(p)
    \/ \E p \in WinPlayers : WinDie(p)
    \/ \E p \in WinPlayers : WinRemovePlayer(p)
    \/ WinCheck
    \/ WinAnnounce

WinnerSpec == Init /\ [][NextWinner]_vars

\* ------------------------------------------------------- package character

characters == <<"Adrian", "Brian", "Amaya", "Easton", "Chase", "Avery", "Alexander">>

\* Faulty variant of nextIndex for C27: the wrap skips the first entry.
nextIndexSkipFirst(i) == IF i + 1 >= Len(characters) THEN 1 ELSE i + 1

\* index++ followed by the reset to 0 at len(characters).
nextIndex(i) == IF i + 1 >= Len(characters) THEN 0 ELSE i + 1

\* GetCharacter returns &characters[index] (Go counts from 0) and advances
\* index.
GetCharacter ==
    /\ charCalls < MaxCharCalls
    /\ newCharacter' = characters[index + 1]
    /\ index' = nextIndex(index)
    /\ charCalls' = charCalls + 1
    /\ UNCHANGED <<mainVars, pongVars, astVars, winVars, extraVars>>

NextCharacter == GetCharacter

CharacterSpec == Init /\ [][NextCharacter]_vars

\* ------------------------------------------- selectAndStartGame on its own

\* The Hub fields selectAndStartGame is called on: every client is
\* registered, a client is in the lobby or in an active game, and a vote
\* names a game, known or not.
LockInputs ==
    [cl : {Clients},
     c2g : [Clients -> {NoGame} \cup activeGames],
     sel : [Clients -> availableGames \cup {InvalidGame, NoVote}]]

lockFrame == <<connVars, isRunning, tickerNil, stopChanClosed, stopCalls, gfQueue,
               overSnap, sendClosed, gfCalls, finishedUnderMux, backToLobby,
               voterLeft, lockedCalls, handledBy, dupCount, pumpVars,
               pongVars, astVars, winVars, charVars, pgVars>>

\* One call of selectAndStartGame, from its Lock() to its return, by a
\* goroutine that finds gameMutex free.
CallSelectAndStartGame ==
    /\ Alive
    /\ MutexFree
    /\ hubPc = "select"
    /\ nextGameID <= MaxLockGames
    /\ lockCall' = "first"
    /\ \E in \in LockInputs :
          selectAndStartGame(in.cl, in.c2g, in.sel, sendClosed, players, shownInLobby, <<>>)
    /\ UNCHANGED lockFrame

\* The call of a second goroutine whose checkAndPotentiallyStartGame passed
\* its check before the first call took the Lock (the Hub loop and the
\* time.AfterFunc of GameFinished): it gets the Lock when the first call has
\* released it and works on the fields that call left.
CallAgain ==
    /\ Alive
    /\ MutexFree
    /\ hubPc = "select"
    /\ nextGameID <= MaxLockGames
    /\ lockCall = "first"
    /\ lockCall' = "again"
    /\ selectAndStartGame(clients, clientToGame, currentGameSelections, sendClosed,
                          players, shownInLobby, <<>>)
    /\ UNCHANGED lockFrame

NextLock ==
    \/ CallSelectAndStartGame
    \/ CallAgain

LockSpec == Init /\ [][NextLock]_vars

\* ------------------------------------------------ the players of one Pong game

\* Faulty variant of pongGameOver for C32: a score equal to TargetScore does
\* not end the game.
pongGameOverAbove(score) == score > TargetScore

\* The players of g.players with the given Role.
withRole(role, r) == {p \in PongPlayers : role[p] = r}

\* The player update and checkGameOver find for a role: ranging over the
\* map, the last player with the role that the range visits (0: nil).
stateOf(role, r) == IF withRole(role, r) = {} THEN {0} ELSE withRole(role, r)

\* The positions of the ball's centre after the move and the paddle
\* collisions of update: at the left wall, in the field, at the right wall.
BallXs == {BallSize \div 2, GameWidth \div 2, GameWidth - BallSize \div 2}

\* update, 4. Check for scoring: the role that scores (0: none).
scoringRole(ballX) ==
    IF ballX - BallSize \div 2 <= 0 THEN 2
    ELSE IF ballX + BallSize \div 2 >= GameWidth THEN 1
    ELSE 0

\* checkGameOver's test of one score.
pongGameOver(score) == score >= TargetScore

pgFrame == <<mainVars, pongVars, astVars, winVars, charVars, lockVars>>

\* AddPlayer: refused when the game is full or has the player; the role
\* follows from the number of players.
PgAddPlayer(p) ==
    /\ pgPc \in {"new", "run", "stopping"}
    /\ Cardinality({q \in PongPlayers : pgRole[q] # 0}) < PongMaxPlayers
    /\ pgRole[p] = 0
    /\ pgRole' = [pgRole EXCEPT
                     ![p] = IF Cardinality({q \in PongPlayers : pgRole[q] # 0}) = 0
                            THEN 1 ELSE 2]
    /\ pgScore' = [pgScore EXCEPT ![p] = 0]
    /\ UNCHANGED <<pgPc, pgWinner, pgTicks, pgFrame>>

\* RemovePlayer: deletes the player; a running game that is left with fewer
\* than MinPlayers players gets "go g.Stop()".
PgRemovePlayer(p) ==
    /\ pgPc \in {"new", "run", "stopping"}
    /\ pgRole[p] # 0
    /\ pgRole' = [pgRole EXCEPT ![p] = 0]
    /\ pgScore' = [pgScore EXCEPT ![p] = 0]
    /\ pgPc' = IF pgPc = "run" /\ Cardinality({q \in PongPlayers : pgRole'[q] # 0})
                                     < PongMinPlayers
               THEN "stopping" ELSE pgPc
    /\ UNCHANGED <<pgWinner, pgTicks, pgFrame>>

\* Start with MinPlayers players: the loop runs.
PgStart ==
    /\ pgPc = "new"
    /\ Cardinality({q \in PongPlayers : pgRole[q] # 0}) = PongMinPlayers
    /\ pgPc' = "run"
    /\ UNCHANGED <<pgRole, pgScore, pgWinner, pgTicks, pgFrame>>

\* The Stop spawned by RemovePlayer clears isRunning: the loop ends.
PgStop ==
    /\ pgPc = "stopping"
    /\ pgPc' = "stopped"
    /\ UNCHANGED <<pgRole, pgScore, pgWinner, pgTicks, pgFrame>>

\* One tick of the loop: update with the ball at ballX, then checkGameOver;
\* on gameOver the loop sends the result, calls Stop and returns.
PgTick(ballX) ==
    /\ pgPc \in {"run", "stopping"}
    /\ pgTicks' = 1 - pgTicks
    /\ \E player1State \in stateOf(pgRole, 1), player2State \in stateOf(pgRole, 2) :
          LET both == player1State # 0 /\ player2State # 0
              scorer == IF ~both THEN 0
                        ELSE IF scoringRole(ballX) = 2 THEN player2State
                        ELSE IF scoringRole(ballX) = 1 THEN player1State
                        ELSE 0
              after == [p \in PongPlayers |->
                           IF p = scorer THEN pgScore[p] + 1 ELSE pgScore[p]]
          IN  /\ pgScore' = after
              /\ \E p1State \in stateOf(pgRole, 1), p2State \in stateOf(pgRole, 2) :
                    IF p1State = 0 \/ p2State = 0
                    THEN UNCHANGED <<pgPc, pgWinner>>
                    ELSE IF pongGameOver(after[p1State])
                    THEN pgPc' = "over" /\ pgWinner' = p1State
                    ELSE IF pongGameOver(after[p2State])
                    THEN pgPc' = "over" /\ pgWinner' = p2State
                    ELSE UNCHANGED <<pgPc, pgWinner>>
    /\ UNCHANGED <<pgRole, pgFrame>>

NextPongGame ==
    \/ \E p \in PongPlayers : PgAddPlayer(p)
    \/ \E p \in PongPlayers : PgRemovePlayer(p)
    \/ PgStart
    \/ PgStop
    \/ \E ballX \in BallXs : PgTick(ballX)

PongGameSpec == Init /\ [][NextPongGame]_vars

\* ------------------------------------------------ one connection's two tasks

\* WritePump: a WriteMessage fails; WritePump returns and its deferred
\* Conn.Close() runs.  It sends nothing to the Hub.
WriteError(c) ==
    /\ Alive
    /\ conn[c] = "open"
    /\ c \notin writeExit
    /\ writeExit' = writeExit \cup {c}
    /\ hubSent' = <<>>
    /\ dupCount' = 0
    /\ lockedCalls' = {}
    /\ handledBy' = <<>>
    /\ UNCHANGED <<connVars, hubVars, gameMutex, nextGameID, hubPc, gameVars, sendClosed,
                   panicked, gfCalls, finishedUnderMux, lobbyAtStart, unvotedAtStart, votersAtStart,
                   backToLobby, shownInLobby, voterLeft, Send, sendCalls, detailVars>>

\* ReadPump of a connection that WritePump closed: ReadMessage fails, the
\* deferred function sends the client on h.unregister, and the Hub receives
\* it.
ReadClosed(c) == c \in writeExit /\ Unregister(c)

NextPump ==
    \/ NextOf(FairClients)
    \/ \E c \in Clients : WriteError(c)

\* FairSpec with write errors: a read on a closed connection fails.
PumpSpec ==
    /\ Init /\ [][NextPump]_vars
    /\ WF_vars(HubNextOf(FairClients))
    /\ \A g \in Games : /\ WF_vars(LoopNext(g))
                         /\ WF_vars(StopTask(g))
                         /\ WF_vars(GameFinished(g))
    /\ \A c \in Clients : WF_vars(ReadClosed(c))

\* ------------------------------------------------------------------- claims

\* Every goroutine of game g has run to its end.
Quiescent(g) == loopPc[g] = "done" /\ stopCalls[g] = 0

\* Game g was created with at least its minimum of participants and a
\* RemovePlayer has left it with fewer.
LeftBelowMin(g) ==
    /\ gameKind[g] # "none"
    /\ votersAtStart[g] >= minPlayers(gameKind[g])
    /\ Cardinality(players[g]) < minPlayers(gameKind[g])

\* C1: a created game never invokes GameFinished twice, and once all its
\* goroutines have ended it has invoked GameFinished exactly once.
C1_GameFinishedExactlyOnce ==
    \A g \in Games :
        /\ gfCalls[g] <= 1
        /\ (gameKind[g] # "none" /\ Quiescent(g)) => gfCalls[g] = 1

\* C2: a client has an entry in clientToGame iff it is a participant of an
\* active game, and that entry is the id of that game (a key of activeGames).
C2_MappedIffInGame ==
    /\ \A c \in Clients :
          clientToGame[c] # NoGame =>
              /\ clientToGame[c] \in activeGames
              /\ c \in players[clientToGame[c]]
    /\ \A g \in activeGames : \A c \in players[g] : clientToGame[c] = g

\* C2 witness: one game was finished and its client sent back to the lobby
\* while another client is mapped to a game that is still active.
C2_Witness ==
    /\ Alive
    /\ \E c \in backToLobby : clientToGame[c] = NoGame /\ c \in clients
    /\ \E d \in clients : clientToGame[d] \in activeGames

\* C3: every client with an entry in currentGameSelections is registered and
\* has no entry in clientToGame.
C3_VotersAreLobbyClients ==
    \A c \in Clients :
        currentGameSelections[c] # NoVote => c \in clients /\ clientToGame[c] = NoGame

\* C4: every game was created with at least 2 registered clients outside
\* every game, all of which had voted.
C4_RoundNeedsTwoLobbyClients ==
    \A g \in Games :
        gameKind[g] # "none" =>
            /\ lobbyAtStart[g] >= 2
            /\ unvotedAtStart[g] = 0

\* C5: no frame is offered to a client's Send channel after the Hub closed
\* it (such an offer is a send on a closed channel).
C5_NoSendAfterClose == panicked # "send on closed channel"

\* C6: the Hub loop never blocks forever: it is at its select again and
\* again, whatever events and GameFinished calls came before.
C6_HubReturnsToSelect == []<>(hubPc = "select")

\* C7: a game that a RemovePlayer left below its minimum has shut down once
\* its goroutines have ended: it has reported to the Hub through
\* GameFinished.
C7_RemovalBelowMinEndsGame ==
    \A g \in Games : (LeftBelowMin(g) /\ Quiescent(g)) => gfCalls[g] >= 1

\* C8: once a participant of a running 2-player game is unregistered (the
\* game is running with one participant r left: a loop only ever runs with
\* 2 or more), r is eventually sent back_to_lobby and then listed with
\* inGame = false by an update_lobby (built from h.clients, which no longer
\* holds the disconnected client), unless r is unregistered too or the
\* process has died.
C8_RemainingSeesLobbyUpdate ==
    \A g \in Games : \A r \in Clients :
        (isRunning[g] /\ players[g] = {r}) ~> \/ r \in shownInLobby
                                              \/ r \notin clients
                                              \/ ~Alive

\* C9: a Hub step that handles the unregister of a lobby client (with or
\* without a vote) and returns to the select leaves no vote of that client,
\* and creates a game if at least 2 clients remain in the lobby and all of
\* them have voted.
C9_UnregisterReleasesVote ==
    [][\A c \in Clients :
          (/\ conn[c] = "open" /\ conn'[c] = "gone"
           /\ c \in clients /\ clientToGame[c] = NoGame
           /\ hubPc' = "select" /\ panicked' = "no" /\ gameMutex' = "free")
          => /\ currentGameSelections'[c] = NoVote
             /\ c \notin clients'
             /\ LET L == LobbyOf(clients \ {c}, clientToGame)
                IN  (Cardinality(L) >= 2 /\ \A d \in L : currentGameSelections[d] # NoVote)
                    => /\ nextGameID' = nextGameID + 1
                       /\ nextGameID \in activeGames'
                       /\ loopPc'[nextGameID] = "spawned"]_vars

\* C9 witness: a lobby client with a recorded vote was unregistered and the
\* Hub is back at its select.
C9_Witness ==
    /\ voterLeft
    /\ Alive /\ MutexFree /\ hubPc = "select"
    /\ \E c \in Clients : sendClosed[c] /\ currentGameSelections[c] = NoVote

\* C10: a second unregister of the same client changes none of clients,
\* currentGameSelections, clientToGame and activeGames, calls no
\* RemovePlayer, and does not close the client's Send channel again.
C10_UnregisterIdempotent ==
    /\ [][dupCount' > dupCount
             => /\ UNCHANGED <<clients, currentGameSelections, clientToGame, activeGames>>
                /\ UNCHANGED <<players, stopCalls, sendClosed>>]_vars
    /\ [](panicked # "close of closed channel")

\* C10 witness: the Hub handled a second unregister of a client whose first
\* unregister closed its Send channel, and is back at its select.
C10_Witness ==
    /\ Alive /\ MutexFree /\ hubPc = "select"
    /\ dupCount > 0
    /\ \E c \in Clients : conn[c] = "gone" /\ sendClosed[c]
    /\ \E d \in clients : clientToGame[d] \in activeGames

\* C11: a frame the Hub dequeues after it handled the sender's unregister
\* (which closed the sender's Send channel) is dropped: it records no vote,
\* maps no client, creates no game, reaches no game and sends nothing to the
\* sender (a send could only hit the closed channel).
C11_LateFrameDropped ==
    [][(/\ incoming # <<>>
        /\ incoming' = Tail(incoming)
        /\ sendClosed[Head(incoming).client])
       => /\ UNCHANGED <<currentGameSelections, clientToGame, activeGames>>
          /\ UNCHANGED <<nextGameID, players, panicked>>]_vars

\* The frames of the given type among those the Hub sent in the step just
\* taken.
SentOfType(t) == {i \in 1..Len(hubSent) : hubSent[i].type = t}

\* C12: in a step that closes a vote round (a game is created), exactly the
\* participants added to the game are sent one game_selected frame, with the
\* id of the new game and the name of its kind; each of them is mapped to
\* that id; and the goroutine of Start is spawned in that step, after the
\* sends, so that the loop (the only sender of state frames) has not run.
C12_GameSelectedBeforeLoop ==
    [][nextGameID' # nextGameID
       => LET g == nextGameID
              F == {i \in 1..Len(hubSent') : hubSent'[i].type = "game_selected"}
          IN  /\ Cardinality(F) = 1
              /\ \A i \in F : /\ hubSent'[i].to = players'[g]
                              /\ hubSent'[i].gameID = g
                              /\ hubSent'[i].selectedGame = gameKind'[g]
              /\ players'[g] # {}
              /\ \A c \in players'[g] : clientToGame'[c] = g
              /\ g \in activeGames'
              /\ loopPc[g] = "none" /\ loopPc'[g] = "spawned"]_vars

\* C12 witness: the Hub has just closed a round of three voters for Pong:
\* two were added and sent game_selected, the third was refused by AddPlayer.
C12_Witness ==
    /\ Alive
    /\ \E i \in SentOfType("game_selected") :
          /\ Cardinality(hubSent[i].to) = 2
          /\ hubSent[i].selectedGame = "Pong"
          /\ votersAtStart[hubSent[i].gameID] = 3

\* C13: a step in which GameFinished is processed for an active game removes
\* the game from activeGames, removes every client mapped to it from
\* clientToGame and sends exactly those clients back_to_lobby; the Score of
\* every registered client with an entry in the result of the processed call
\* grows by that entry, and no other Score changes.  A game is finished once:
\* a game that enters activeGames is a new one.
C13_GameFinishedCredits ==
    [][\A g \in Games :
          /\ (g \in activeGames /\ g \notin activeGames')
             => LET mapped == {c \in Clients : clientToGame[c] = g}
                IN  /\ \A c \in mapped : clientToGame'[c] = NoGame
                    /\ hubSent' = <<BackToLobbyFrame(mapped)>>
                    /\ \E call \in 1..Len(gfQueue[g]) :
                          /\ gfQueue'[g] = RemoveAt(gfQueue[g], call)
                          /\ \E scores \in resultScores(gfQueue[g][call]) :
                                \A p \in Clients :
                                    Score'[p] = IF p \in clients /\ p \in DOMAIN scores
                                                THEN Score[p] + scores[p]
                                                ELSE Score[p]
          /\ (g \notin activeGames /\ g \in activeGames') => g = nextGameID]_vars

\* C13 witness: GameFinished has just sent two registered clients back to
\* the lobby, one credited with a positive score and one with 0.
C13_Witness ==
    /\ Alive
    /\ \E i \in SentOfType("back_to_lobby") :
          \E c, d \in hubSent[i].to \cap clients : Score[c] > 0 /\ Score[d] = 0

\* A GameFinished call for game g is waiting at Lock and g was created and is
\* no longer in activeGames.
LateCall(g) == gfQueue[g] # <<>> /\ gameKind[g] # "none" /\ g \notin activeGames

RunsStop(g) ==
    \/ stopCalls'[g] < stopCalls[g]
    \/ loopPc[g] \in {"spawned", "over", "sendOver"} /\ loopPc'[g] = "done"

\* C15: Stop is idempotent: after any call of Stop on a game, the first or a
\* later one, before or after Start has begun the loop, the game has invoked
\* GameFinished exactly once in total.
C15_StopIdempotent ==
    [][\A g \in Games : RunsStop(g) => gfCalls'[g] = 1]_vars

\* The goroutine running Start of game g exists and has not returned.
LoopLive(g) == loopPc[g] \in {"spawned", "loop", "select", "tick", "over", "sendOver"}

\* C16: every game in activeGames has its one goroutine of Start live (a
\* game has at most one by construction: loopPc).  A game whose shutdown is
\* under way, with a Stop still to run or a GameFinished call still waiting,
\* is not counted against the claim.
C16_ActiveGameHasLoop ==
    \A g \in activeGames : LoopLive(g) \/ stopCalls[g] > 0 \/ gfQueue[g] # <<>>

\* C17: a step in which the Hub handles the register of client c to the end
\* adds c to clients with no clientToGame entry and sends two frames in this
\* order: a welcome to c with c's id and the available games, then an
\* update_lobby to every registered client, c included, that lists c with
\* score 0 and inGame false.
C17_RegisterWelcomesThenUpdates ==
    [][\A c \in Clients :
          (conn[c] = "idle" /\ conn'[c] = "open" /\ hubPc' = "select" /\ panicked' = "no")
          => /\ clients' = clients \cup {c}
             /\ clientToGame'[c] = NoGame
             /\ Len(hubSent') = 2
             /\ hubSent'[1] = [type |-> "welcome", to |-> {c}, clientID |-> c,
                               currentGames |-> {"Asteroids", "Pong"}]
             /\ hubSent'[2].type = "update_lobby"
             /\ hubSent'[2].to = clients'
             /\ DOMAIN hubSent'[2].players = clients'
             /\ hubSent'[2].players[c] = [score |-> 0, inGame |-> FALSE]]_vars

\* C17 witness: the Hub has just registered a client while another client
\* is registered and in a game.
C17_Witness ==
    /\ Alive /\ hubPc = "select"
    /\ Len(hubSent) = 2
    /\ hubSent[1].type = "welcome"
    /\ \E d \in hubSent[2].to : hubSent[2].players[d].inGame

\* The step dequeues a select_game for a game that is not in availableGames,
\* sent by client c, which is registered and in the lobby, and the Hub
\* handles it to the end.
HandlesInvalidVote(c) ==
    /\ incoming # <<>> /\ incoming' = Tail(incoming)
    /\ Head(incoming).client = c
    /\ Head(incoming).type = "select_game"
    /\ Head(incoming).game \notin availableGames
    /\ c \in clients /\ clientToGame[c] = NoGame
    /\ gameMutex = "free"

\* C18: a select_game of a lobby client that names a game outside
\* availableGames makes the Hub send one error frame, to the sender, and
\* changes neither the vote map (an earlier vote of the sender stays) nor
\* clientToGame, activeGames, the scores or the registered clients; no game
\* is created.
C18_InvalidVoteRejected ==
    [][\A c \in Clients :
          HandlesInvalidVote(c)
          => /\ hubSent' = <<[type |-> "error", to |-> {c}]>>
             /\ UNCHANGED <<currentGameSelections, clientToGame, activeGames>>
             /\ UNCHANGED <<Score, clients, nextGameID, players>>
             /\ hubPc' = "select" /\ panicked' = "no"]_vars

\* C18 witness: the Hub has just sent an error frame to a registered client
\* whose earlier valid vote is still recorded.
C18_Witness ==
    /\ Alive /\ hubPc = "select"
    /\ \E i \in SentOfType("error") :
          \E c \in hubSent[i].to \cap clients : currentGameSelections[c] \in availableGames

\* C19: a sendMessage call can always be made and returns, whatever the
\* channel holds; a call made when Send holds SendCapacity frames leaves the
\* contents of Send as they were (its frame is dropped), and no call closes
\* the channel or the connection, unregisters the client or ends the
\* process.
C19_FullQueueDropsFrame ==
    /\ [](sendCalls < MaxSendCalls => ENABLED sendMessage)
    /\ [][sendCalls' = sendCalls + 1
          => /\ Len(Send) = SendCapacity => Send' = Send
             /\ Len(Send) < SendCapacity => Send' = Append(Send, sendCalls')
             /\ UNCHANGED <<conn, clients, sendClosed, writeExit, panicked>>]_vars

\* C19 witness: Send is full, and a call made when it was full has returned:
\* the frame of that call is not in the channel.
C19_Witness ==
    /\ Len(Send) = SendCapacity
    /\ sendCalls > SendCapacity
    /\ \A i \in 1..Len(Send) : Send[i] # sendCalls

\* C20: the exit of WritePump on a write error sends nothing to the Hub (the
\* step changes no connection state, no Hub map and closes no channel); the
\* unregister of a connection is delivered by its ReadPump, once (a
\* connection that delivered it delivers nothing more); and a client whose
\* WritePump exited on a write error is eventually no longer registered,
\* unless the process died.
C20_ReadTaskUnregisters ==
    /\ [][\A c \in Clients :
             c \in writeExit' \ writeExit
             => UNCHANGED <<conn, incoming, clients, clientToGame, sendClosed>>]_vars
    /\ [][\A c \in Clients : conn[c] = "gone" => conn'[c] = "gone"]_vars
    /\ \A c \in Clients : (c \in writeExit) ~> (c \notin clients \/ ~Alive)

\* C21: a step taken by a goroutine of a game (the goroutine of Start, a
\* "go g.Stop()" goroutine, a goroutine inside GameFinished) writes none of
\* h.clients, h.currentGameSelections, h.activeGames, h.clientToGame and the
\* clients' scores: only the Hub loop does.
C21_OnlyHubWritesLobbyState ==
    [][(\E g \in Games : GameNext(g)) => UNCHANGED hubVars]_vars

\* C22: the Hub calls no method of a game between gameMutex.Lock() and
\* gameMutex.Unlock().
C22_NoGameCallUnderLock == lockedCalls = {}

\* C23: no execution of Stop, of Pong or of Asteroids, invokes GameFinished
\* while it holds the game's playerMux.
C23_FinishedOutsideMux == finishedUnderMux = {}

\* C23 witness: a Pong game that never ran was stopped with a GameFinished
\* call, and the Stop of a running game has invoked GameFinished with the
\* scores of its players.
C23_Witness ==
    /\ \E g \in Games : gameKind[g] = "Pong" /\ votersAtStart[g] = 1 /\ gfCalls[g] > 0
    /\ \E g \in Games : \E i \in 1..Len(gfQueue[g]) : gfQueue[g][i] # {}

\* C24: in a running Pong game a pong_input "up" moves the sender's paddle
\* by +PaddleSpeed and "down" by -PaddleSpeed, clamped to
\* [PaddleHeight/2, GameHeight - PaddleHeight/2] = [30, 570], and leaves the
\* paddle of the other player alone; every paddle is inside that interval at
\* all times.
C24_PaddleMovesClamped ==
    /\ [][\A role \in 1..2 :
             (pongRunning = "yes" /\ lastInput' # lastInput /\ lastInput'[1] = role)
             => /\ lastInput'[2] = "up" =>
                      PaddleY'[role] = (IF PaddleY[role] + 10 > 570 THEN 570
                                        ELSE PaddleY[role] + 10)
                /\ lastInput'[2] = "down" =>
                      PaddleY'[role] = (IF PaddleY[role] - 10 < 30 THEN 30
                                        ELSE PaddleY[role] - 10)
                /\ PaddleY'[3 - role] = PaddleY[3 - role]]_vars
    /\ [](\A role \in 1..2 : PaddleY[role] >= 30 /\ PaddleY[role] <= 570)

\* C24 witness: in a running game one paddle has been moved up to the upper
\* limit, the other down to the lower limit, and the last input was another
\* "up" against the upper limit.
C24_Witness ==
    /\ pongRunning = "yes"
    /\ \E role \in 1..2 :
          /\ PaddleY[role] = 570 /\ PaddleY[3 - role] = 30
          /\ lastInput[1] = role /\ lastInput[2] = "up"

\* The number of asteroids of the given type that the step adds to
\* g.asteroids.
addedOfType(type) ==
    Cardinality({id \in AstIds : asteroids[id] = "none" /\ asteroids'[id] = type})

\* C25: after a tick in which projectiles collided with asteroids, every hit
\* asteroid and every projectile that hit is gone, two asteroids of the next
\* smaller class were added for every large and every middle asteroid hit,
\* every owner's score grew by exactly the points of the asteroids its
\* projectiles hit, and no projectile and no asteroid is in two collisions.
C25_HitSplitsAndScores ==
    [][astTicks' = astTicks + 1
       => /\ \A h \in lastHits' : asteroids'[h.ast] = "none" /\ projectiles'[h.proj] = 0
          /\ addedOfType("middle") = 2 * Cardinality({h \in lastHits' : h.type = "large"})
          /\ addedOfType("small") = 2 * Cardinality({h \in lastHits' : h.type = "middle"})
          /\ \A owner \in 1..2 :
                astScore'[owner] - astScore[owner] =
                    20 * Cardinality({h \in lastHits' : h.owner = owner /\ h.type = "large"})
                  + 50 * Cardinality({h \in lastHits' : h.owner = owner /\ h.type = "middle"})
                  + 100 * Cardinality({h \in lastHits' : h.owner = owner /\ h.type = "small"})
          /\ \A h1, h2 \in lastHits' :
                (h1.proj = h2.proj \/ h1.ast = h2.ast) => h1 = h2]_vars

C27_RoundRobin ==
    /\ Len(characters) = 7
    /\ charCalls > 0 => newCharacter = characters[((charCalls - 1) % 7) + 1]

\* C27 witness: the eighth call has wrapped to the first entry.
C27_Witness == charCalls = 8 /\ newCharacter = "Adrian" /\ index = 1

\* C28: when the Hub handles a dequeued frame, a sender that is in
\* clientToGame has the frame passed to HandleMessage of the game it is
\* mapped to and not to the lobby handler, so no vote is recorded and no
\* frame is sent by the Hub, whatever the frame's type; a frame of a
\* registered lobby client whose type is not select_game goes to the lobby
\* handler and changes no Hub field.
C28_RoutedBySenderLocation ==
    [][(incoming # <<>> /\ incoming' = Tail(incoming) /\ gameMutex = "free")
       => LET hubMsg == Head(incoming)
              c == hubMsg.client
          IN  /\ clientToGame[c] # NoGame
                 => /\ handledBy' = <<"game", clientToGame[c], hubMsg.type>>
                    /\ hubSent' = <<>>
                    /\ UNCHANGED <<hubVars, nextGameID, players>>
              /\ (c \in clients /\ clientToGame[c] = NoGame
                  /\ hubMsg.type # "select_game")
                 => /\ handledBy' = <<"lobby", NoGame, hubMsg.type>>
                    /\ hubSent' = <<>>
                    /\ UNCHANGED <<hubVars, nextGameID, players>>]_vars

\* C28 witness: the Hub has passed a select_game of a client that is in a
\* running game to that game; the client has no vote.
C28_Witness ==
    \E c \in clients :
        /\ clientToGame[c] \in activeGames
        /\ handledBy = <<"game", clientToGame[c], "select_game">>
        /\ currentGameSelections[c] = NoVote

C30_VoteBroadcastsLobbyUpdate ==
    [][(/\ incoming # <<>> /\ incoming' = Tail(incoming)
        /\ gameMutex = "free"
        /\ Head(incoming).type = "select_game"
        /\ Head(incoming).game \in availableGames
        /\ Head(incoming).client \in clients
        /\ clientToGame[Head(incoming).client] = NoGame
        /\ panicked' = "no")
       => /\ \/ currentGameSelections'[Head(incoming).client] = Head(incoming).game
             \/ nextGameID' = nextGameID + 1
          /\ \E i \in 1..Len(hubSent') :
                 hubSent'[i].type = "update_lobby" /\ hubSent'[i].to = clients]_vars

\* C31: the game created when a vote round closes is the vote of one of the
\* round's participating lobby voters, that is of a registered client that
\* is in no game and has a vote in the map the draw is made from; a game
\* that none of them selected is never created.
C31_ChosenGameIsALobbyVote ==
    [][nextGameID' = nextGameID + 1
       => LET votes == IF incoming' # incoming
                       THEN [currentGameSelections EXCEPT
                                ![Head(incoming).client] = Head(incoming).game]
                       ELSE currentGameSelections
              voters == {c \in clients' : clientToGame[c] = NoGame /\ votes[c] # NoVote}
          IN  gameKind'[nextGameID] \in {votes[c] : c \in voters}]_vars

\* C32: in a tick of a Pong game at most one player's score changes and it
\* grows by exactly 1; the tick ends the game exactly when some score is at
\* least TargetScore afterwards, and the winner is a player of the game that
\* holds such a score; no score ever exceeds TargetScore and the two players
\* never both hold it.
C32_OnePointPerTick ==
    /\ [][pgTicks' # pgTicks
          => /\ Cardinality({p \in PongPlayers : pgScore'[p] # pgScore[p]}) <= 1
             /\ \A p \in PongPlayers : pgScore'[p] \in {pgScore[p], pgScore[p] + 1}
             /\ pgPc' = "over" <=> \E p \in PongPlayers : pgScore'[p] >= 5
             /\ pgPc' = "over" => /\ pgWinner' \in PongPlayers
                                  /\ pgRole[pgWinner'] # 0
                                  /\ pgScore'[pgWinner'] >= 5]_vars
    /\ [](\A p \in PongPlayers : pgScore[p] <= 5)
    /\ [](Cardinality({p \in PongPlayers : pgScore[p] >= 5}) <= 1)

\* C32 witness: the game ended 5 to 4.
C32_Witness ==
    /\ pgPc = "over"
    /\ pgScore[pgWinner] = 5
    /\ \E p \in PongPlayers : pgRole[p] # 0 /\ pgScore[p] = 4

\* C40: the players of a Pong game hold distinct roles: at most one has role
\* 1 and at most one has role 2.
C40_DistinctRoles ==
    /\ Cardinality(withRole(pgRole, 1)) <= 1
    /\ Cardinality(withRole(pgRole, 2)) <= 1

C34_KeysAreRegistered ==
    /\ [](\A c \in Clients : clientToGame[c] # NoGame => c \in clients)
    /\ [](\A c \in Clients : currentGameSelections[c] # NoVote => c \in clients)
    /\ [][\A c \in Clients \ clients' :
             /\ currentGameSelections'[c] # currentGameSelections[c]
                => currentGameSelections'[c] = NoVote
             /\ clientToGame'[c] # clientToGame[c] => clientToGame'[c] = NoGame
             /\ \A g \in Games : c \in players'[g] => c \in players[g]]_vars

C36_SecondCheckStartsNothing ==
    [][lockCall' = "again"
       => /\ UNCHANGED <<nextGameID, activeGames, clientToGame, players, gameKind>>
          /\ hubSent' = <<>>
          /\ \A c \in Clients : clientToGame[c] = NoGame
                                => currentGameSelections[c] = NoVote]_vars

\* C36 witness: the second call has returned after a first call that created
\* a Pong game for two of three voters.
C36_Witness ==
    /\ lockCall = "again"
    /\ \E g \in activeGames :
          /\ gameKind[g] = "Pong" /\ votersAtStart[g] = 3
          /\ Cardinality(players[g]) = 2
          /\ \A c \in players[g] : clientToGame[c] = g

\* C37: the loop of an Asteroids game never evaluates g.ticker.C after Stop
\* has set g.ticker to nil (a nil pointer dereference that ends the process):
\* whenever Stop runs during a tick, the loop returns normally.
C37_LoopNeverUsesNilTicker == panicked # "nil dereference"

\* C38: the locked part of a tick of game g sends no state frame to a player
\* of g that the Hub has sent back_to_lobby for g, that is after
\* GameFinished has taken g out of activeGames.
C38_NoStateAfterBackToLobby ==
    [][\A g \in Games :
          (/\ loopPc[g] = "tick" /\ loopPc'[g] # "tick"
           /\ gameKind[g] # "none" /\ g \notin activeGames)
          => stateReceivers(g) \cap backToLobby = {}]_vars

\* C39: when the loop of game g has seen its end condition, the game-over
\* frames it sends go to no player that has already been sent back_to_lobby
\* for g: the Hub is notified only after the game-over frames.
C39_GameOverBeforeBackToLobby ==
    [][\A g \in Games :
          (/\ loopPc[g] \in {"over", "sendOver"} /\ loopPc'[g] = "done"
           /\ g \notin activeGames)
          => overReceivers(g) \cap backToLobby = {}]_vars

====
